---- MODULE Spec2Model ----
(***************************************************************************)
(* UnRayNeo: the logged command runner (unrayneo/command_logger.py) and    *)
(* the WiFi scan-result parser (unrayneo/wifi.py) as state machines.       *)
(***************************************************************************)
EXTENDS Integers, Sequences, FiniteSets, TLC

VARIABLES
    clock,      \* the wall clock, in seconds since the start of day 0
    pc,         \* pc[i]: position of the main thread of invocation i
    cmd,        \* cmd[i]: the command text passed to log_command
    prefix,     \* prefix[i]: the prefix passed to log_command
    today,      \* today[i]: local `today` (line 16)
    timestamp,  \* timestamp[i]: local `timestamp` (line 17)
    log_dir,    \* log_dir[i]: local `log_dir` (line 19)
    dirs,       \* the directories that exist
    fs,         \* the files that exist: path -> sequence of written chunks
    fh,         \* fh[i][s]: the file object stdout_file / stderr_file
    child,      \* child[i]: "none", "running" or "exited"
    exitcode,   \* exitcode[i]: the exit status of the child once it has exited
    wopen,      \* wopen[i][s]: the write end of pipe s is still held open
    pipe,       \* pipe[i][s]: lines written to the pipe and not yet read
    emitted,    \* emitted[i][s]: every line ever written to pipe s (history)
    rpc,        \* rpc[i][s]: position of the reader thread of stream s
    line,       \* line[i][s]: the reader's loop variable `line`
    consumed,   \* consumed[i][s]: every line the reader has taken (history)
    console,    \* what has been printed, in order, with the printing thread
    returncode, \* returncode[i]: local `returncode` (line 60)
    ret,        \* ret[i]: the value log_command returned
    raw,        \* the text of adb's stdout handed to the parser
    ppc,        \* position of the parser call
    networks,   \* the list the scan parser returned
    connection, \* what the connection parser returned
    calls,      \* the parser calls that returned, in order (history)
    check,      \* run_adb_command: the argument `check`
    proc,       \* run_adb_command: what becomes of the command it runs
    apc,        \* run_adb_command: position of the call
    aprinted,   \* run_adb_command: it has printed its error message
    aret,       \* run_adb_command: how the call ended
    mpc,        \* update_mcp_config: position of the call
    ip_address, \* update_mcp_config: the argument and local `ip_address`
    config,     \* the MCP config file config.yaml
    mret        \* update_mcp_config: the value returned

avars == <<check, proc, apc, aprinted, aret>>
mvars == <<mpc, ip_address, config, mret>>
xvars == <<calls, check, proc, apc, aprinted, aret, mvars>>
lvars == <<clock, pc, cmd, prefix, today, timestamp, log_dir, dirs, fs, fh,
           child, exitcode, wopen, pipe, emitted, rpc, line, consumed,
           console, returncode, ret>>
pvars == <<raw, ppc, networks, connection>>
vars == <<clock, pc, cmd, prefix, today, timestamp, log_dir, dirs, fs, fh,
          child, exitcode, wopen, pipe, emitted, rpc, line, consumed,
          console, returncode, ret, raw, ppc, networks, connection, xvars>>

(***************************************************************************)
(* Bounds of the model.                                                    *)
(***************************************************************************)
\* lines a child (and its descendants) may write in total, both streams
MaxLines == 2
\* seconds the clock may advance while an invocation still has to read it
MaxTicks == 2
\* lines of a scan-result text
MaxScanLines == 3
\* space-separated tokens of a scan-result line
MaxTokens == 4

None == "<none>"

\* The value of an exit status not yet known: Popen.returncode before the child
\* has exited, the local `returncode` before line 60, the result before the
\* return.  An integer no exit status takes (statuses lie in -255 .. 255), so
\* that it can be compared with a status.
NoStatus == 256

\* the command of run_adb_command could not be started
NotStarted == [started |-> FALSE]

\* the connection parser's None
NoConnection == [none |-> TRUE]
Streams == {"out", "err"}
Inv == {1, 2}

(***************************************************************************)
(* Inputs.                                                                 *)
(***************************************************************************)
\* the calls made: cli.py passes prefix="wrap", the default prefix is "cmd"
Calls == {[cmd |-> "adb devices", prefix |-> "wrap"],
          [cmd |-> "true", prefix |-> "cmd"]}
ExitCodes == {0, 7, -9}

(***************************************************************************)
(* str(n): decimal text of an integer.                                     *)
(***************************************************************************)
Digit(d) ==
    CASE d = 0 -> "0" [] d = 1 -> "1" [] d = 2 -> "2" [] d = 3 -> "3"
      [] d = 4 -> "4" [] d = 5 -> "5" [] d = 6 -> "6" [] d = 7 -> "7"
      [] d = 8 -> "8" [] d = 9 -> "9"

RECURSIVE NatStr(_)
NatStr(n) == IF n < 10 THEN Digit(n) ELSE NatStr(n \div 10) \o Digit(n % 10)

Str(n) == IF n < 0 THEN "-" \o NatStr(0 - n) ELSE NatStr(n)

\* %m, %d, %H, %M, %S: two digits, zero padded
Pad2(n) == IF n < 10 THEN "0" \o NatStr(n) ELSE NatStr(n)

(***************************************************************************)
(* datetime.now().strftime(...).  The clock counts seconds; day 0 is       *)
(* 2024-12-31 and day 1 is 2025-01-01.                                     *)
(***************************************************************************)
SecondsPerDay == 24 * 60 * 60
Calendar(d) == IF d = 0 THEN [y |-> 2024, m |-> 12, d |-> 31]
                        ELSE [y |-> 2025, m |-> 1, d |-> 1]
DayOf(t) == t \div SecondsPerDay
HourOf(t) == (t % SecondsPerDay) \div 3600
MinuteOf(t) == (t % 3600) \div 60
SecondOf(t) == t % 60

\* strftime("%Y-%m-%d")
FormatDate(t) ==
    LET c == Calendar(DayOf(t))
    IN NatStr(c.y) \o "-" \o Pad2(c.m) \o "-" \o Pad2(c.d)

\* strftime("%Y%m%d_%H%M%S")
FormatTimestamp(t) ==
    LET c == Calendar(DayOf(t))
    IN NatStr(c.y) \o Pad2(c.m) \o Pad2(c.d) \o "_"
         \o Pad2(HourOf(t)) \o Pad2(MinuteOf(t)) \o Pad2(SecondOf(t))

\* hashlib.md5(cmd.encode()).hexdigest()[:8]
CmdHash(c) == IF c = "adb devices" THEN "ebac53ea" ELSE "b326b506"

\* f"secret/command-logs/{today}/{prefix}_{cmd_hash}_{timestamp}"
LogDirPath(td, pf, h, ts) ==
    "secret/command-logs/" \o td \o "/" \o pf \o "_" \o h \o "_" \o ts

\* log_dir / name
Join(dir, name) == dir \o "/" \o name

(***************************************************************************)
(* Files.  A file is the sequence of chunks written to it; a file object   *)
(* buffers what write() was given until it is flushed, and writes at its   *)
(* own position.                                                           *)
(***************************************************************************)
ClosedHandle == [st |-> "closed", path |-> None, buf |-> <<>>, pos |-> 0]

\* open(path, "w"): create the file, or truncate it when it exists
Truncate(files, path) ==
    [p \in DOMAIN files \cup {path} |-> IF p = path THEN <<>> ELSE files[p]]

Hole == "<hole>"

\* the file's content after `data` is written at chunk offset `pos`
WriteAt(content, pos, data) ==
    LET n == IF Len(content) > pos + Len(data) THEN Len(content)
                                               ELSE pos + Len(data)
    IN [k \in 1..n |->
          IF k > pos /\ k <= pos + Len(data) THEN data[k - pos]
          ELSE IF k <= Len(content) THEN content[k]
          ELSE Hole]

\* the files after handle h flushes its buffer
Flushed(files, h) ==
    IF h.buf = <<>> THEN files
    ELSE [files EXCEPT ![h.path] = WriteAt(@, h.pos, h.buf)]

\* the handle after its buffer was flushed
AfterFlush(h) == [h EXCEPT !.buf = <<>>, !.pos = @ + Len(h.buf)]

\* the k-th line the child writes, k counted over both streams
LineText(k) == "line " \o NatStr(k) \o "\n"

\* the prefix argument of stream_output for each stream
ConsolePrefix(s) == IF s = "err" THEN "ERR: " ELSE ""

LogFileName(s) == IF s = "err" THEN "stderr.txt" ELSE "stdout.txt"

NumEmitted(i) == Len(emitted[i]["out"]) + Len(emitted[i]["err"])

\* lines written so far by all children together
RECURSIVE TotalEmitted(_)
TotalEmitted(I) ==
    IF I = {} THEN 0
    ELSE LET i == CHOOSE j \in I : TRUE
         IN NumEmitted(i) + TotalEmitted(I \ {i})

\* the call has ended, by returning or by raising
Ended(i) == pc[i] \in {"returned", "raised"}

\* call i can be made: the calls before it have ended
Callable(i) == pc[i] = "pending" /\ \A j \in Inv : j < i => Ended(j)

(***************************************************************************)
(* The clock.  It only matters while some invocation has yet to read it.   *)
(***************************************************************************)
ClockStart == SecondsPerDay - 1

Tick ==
    /\ clock < ClockStart + MaxTicks
    /\ \E i \in Inv : pc[i] \in {"today", "timestamp"} \/ Callable(i)
    /\ clock' = clock + 1
    /\ UNCHANGED <<pc, cmd, prefix, today, timestamp, log_dir, dirs, fs, fh,
                   child, exitcode, wopen, pipe, emitted, rpc, line, consumed,
                   console, returncode, ret, raw, ppc, networks, connection, xvars>>

(***************************************************************************)
(* log_command: the main thread.                                           *)
(***************************************************************************)
\* line 10: the caller calls log_command(c.cmd, c.prefix)
Call(i, c) ==
    /\ Callable(i)
    /\ cmd' = [cmd EXCEPT ![i] = c.cmd]
    /\ prefix' = [prefix EXCEPT ![i] = c.prefix]
    /\ pc' = [pc EXCEPT ![i] = "today"]
    /\ UNCHANGED <<clock, today, timestamp, log_dir, dirs, fs, fh,
                   child, exitcode, wopen, pipe, emitted, rpc, line, consumed,
                   console, returncode, ret, raw, ppc, networks, connection, xvars>>

\* line 16
ReadToday(i) ==
    /\ pc[i] = "today"
    /\ today' = [today EXCEPT ![i] = FormatDate(clock)]
    /\ pc' = [pc EXCEPT ![i] = "timestamp"]
    /\ UNCHANGED <<clock, cmd, prefix, timestamp, log_dir, dirs, fs, fh,
                   child, exitcode, wopen, pipe, emitted, rpc, line, consumed,
                   console, returncode, ret, raw, ppc, networks, connection, xvars>>

\* line 17
ReadTimestamp(i) ==
    /\ pc[i] = "timestamp"
    /\ timestamp' = [timestamp EXCEPT ![i] = FormatTimestamp(clock)]
    /\ pc' = [pc EXCEPT ![i] = "mkdir"]
    /\ UNCHANGED <<clock, cmd, prefix, today, log_dir, dirs, fs, fh,
                   child, exitcode, wopen, pipe, emitted, rpc, line, consumed,
                   console, returncode, ret, raw, ppc, networks, connection, xvars>>

\* lines 18-20
MakeLogDir(i) ==
    /\ pc[i] = "mkdir"
    /\ LET d == LogDirPath(today[i], prefix[i], CmdHash(cmd[i]), timestamp[i])
       IN /\ log_dir' = [log_dir EXCEPT ![i] = d]
          /\ dirs' = dirs \cup {d}
    /\ pc' = [pc EXCEPT ![i] = "open_cmd"]
    /\ UNCHANGED <<clock, cmd, prefix, today, timestamp, fs, fh,
                   child, exitcode, wopen, pipe, emitted, rpc, line, consumed,
                   console, returncode, ret, raw, ppc, networks, connection, xvars>>

\* line 23: open(log_dir/"command.txt", "w")
OpenCommandFile(i) ==
    /\ pc[i] = "open_cmd"
    /\ fs' = Truncate(fs, Join(log_dir[i], "command.txt"))
    /\ pc' = [pc EXCEPT ![i] = "write_cmd"]
    /\ UNCHANGED <<clock, cmd, prefix, today, timestamp, log_dir, dirs, fh,
                   child, exitcode, wopen, pipe, emitted, rpc, line, consumed,
                   console, returncode, ret, raw, ppc, networks, connection, xvars>>

\* WriteCommand with the write left out: command.txt stays empty
WriteCommandSkipped(i) ==
    /\ pc[i] = "write_cmd"
    /\ pc' = [pc EXCEPT ![i] = "open_logs"]
    /\ UNCHANGED <<clock, cmd, prefix, today, timestamp, log_dir, dirs, fs, fh,
                   child, exitcode, wopen, pipe, emitted, rpc, line, consumed,
                   console, returncode, ret, raw, ppc, networks, connection, xvars>>

\* line 24 and the end of the with block: f.write(cmd), close
WriteCommand(i) ==
    /\ pc[i] = "write_cmd"
    /\ fs' = [fs EXCEPT ![Join(log_dir[i], "command.txt")] =
                                               WriteAt(@, 0, <<cmd[i]>>)]
    /\ pc' = [pc EXCEPT ![i] = "open_logs"]
    /\ UNCHANGED <<clock, cmd, prefix, today, timestamp, log_dir, dirs, fh,
                   child, exitcode, wopen, pipe, emitted, rpc, line, consumed,
                   console, returncode, ret, raw, ppc, networks, connection, xvars>>

\* lines 27-30: print "Running", open stdout.txt and stderr.txt for writing
OpenLogFiles(i) ==
    /\ pc[i] = "open_logs"
    /\ console' = Append(console,
                    [by |-> <<i, "main">>, text |-> "Running: " \o cmd[i] \o "\n"])
    /\ fs' = Truncate(Truncate(fs, Join(log_dir[i], "stdout.txt")),
                      Join(log_dir[i], "stderr.txt"))
    /\ fh' = [fh EXCEPT ![i] =
                [s \in Streams |->
                   [st |-> "open", path |-> Join(log_dir[i], LogFileName(s)),
                    buf |-> <<>>, pos |-> 0]]]
    /\ pc' = [pc EXCEPT ![i] = "popen"]
    /\ UNCHANGED <<clock, cmd, prefix, today, timestamp, log_dir, dirs,
                   child, exitcode, wopen, pipe, emitted, rpc, line, consumed,
                   returncode, ret, raw, ppc, networks, connection, xvars>>

\* lines 32-39: subprocess.Popen starts the shell
Popen(i) ==
    /\ pc[i] = "popen"
    /\ child' = [child EXCEPT ![i] = "running"]
    /\ wopen' = [wopen EXCEPT ![i] = [s \in Streams |-> TRUE]]
    /\ pc' = [pc EXCEPT ![i] = "start_out"]
    /\ UNCHANGED <<clock, cmd, prefix, today, timestamp, log_dir, dirs, fs, fh,
                   exitcode, pipe, emitted, rpc, line, consumed,
                   console, returncode, ret, raw, ppc, networks, connection, xvars>>

\* PopenFails with the exception swallowed: the call goes on to record and
\* return a status of its own
PopenFailsSwallowed(i) ==
    /\ pc[i] = "popen"
    /\ fh' = [fh EXCEPT ![i] = [s \in Streams |-> ClosedHandle]]
    /\ returncode' = [returncode EXCEPT ![i] = -1]
    /\ pc' = [pc EXCEPT ![i] = "open_rc"]
    /\ UNCHANGED <<clock, cmd, prefix, today, timestamp, log_dir, dirs, fs,
                   child, exitcode, wopen, pipe, emitted, rpc, line, consumed,
                   console, ret, raw, ppc, networks, connection, xvars>>

\* lines 32-39 and 29-30: subprocess.Popen raises (the process cannot be
\* created); the with block closes both files and the exception propagates
PopenFails(i) ==
    /\ pc[i] = "popen"
    /\ fs' = Flushed(Flushed(fs, fh[i]["out"]), fh[i]["err"])
    /\ fh' = [fh EXCEPT ![i] = [s \in Streams |-> ClosedHandle]]
    /\ pc' = [pc EXCEPT ![i] = "raised"]
    /\ UNCHANGED <<clock, cmd, prefix, today, timestamp, log_dir, dirs,
                   child, exitcode, wopen, pipe, emitted, rpc, line, consumed,
                   console, returncode, ret, raw, ppc, networks, connection, xvars>>

\* line 56
StartStdoutThread(i) ==
    /\ pc[i] = "start_out"
    /\ rpc' = [rpc EXCEPT ![i]["out"] = "next"]
    /\ pc' = [pc EXCEPT ![i] = "start_err"]
    /\ UNCHANGED <<clock, cmd, prefix, today, timestamp, log_dir, dirs, fs, fh,
                   child, exitcode, wopen, pipe, emitted, line, consumed,
                   console, returncode, ret, raw, ppc, networks, connection, xvars>>

\* line 57
StartStderrThread(i) ==
    /\ pc[i] = "start_err"
    /\ rpc' = [rpc EXCEPT ![i]["err"] = "next"]
    /\ pc' = [pc EXCEPT ![i] = "wait"]
    /\ UNCHANGED <<clock, cmd, prefix, today, timestamp, log_dir, dirs, fs, fh,
                   child, exitcode, wopen, pipe, emitted, line, consumed,
                   console, returncode, ret, raw, ppc, networks, connection, xvars>>

\* Wait with the status of the child discarded
WaitDiscardingStatus(i) ==
    /\ pc[i] = "wait"
    /\ child[i] = "exited"
    /\ pc' = [pc EXCEPT ![i] = "join_out"]
    /\ returncode' = [returncode EXCEPT ![i] = 0]
    /\ UNCHANGED <<clock, cmd, prefix, today, timestamp, log_dir, dirs, fs, fh,
                   child, exitcode, wopen, pipe, emitted, rpc, line, consumed,
                   console, ret, raw, ppc, networks, connection, xvars>>

\* line 60: process.wait() blocks until the child has exited
Wait(i) ==
    /\ pc[i] = "wait"
    /\ child[i] = "exited"
    /\ pc' = [pc EXCEPT ![i] = "join_out"]
    /\ returncode' = [returncode EXCEPT ![i] = exitcode[i]]
    /\ UNCHANGED <<clock, cmd, prefix, today, timestamp, log_dir, dirs, fs, fh,
                   child, exitcode, wopen, pipe, emitted, rpc, line, consumed,
                   console, ret, raw, ppc, networks, connection, xvars>>

\* JoinStdout without the join: the main thread does not wait
JoinStdoutNoWait(i) ==
    /\ pc[i] = "join_out"
    /\ pc' = [pc EXCEPT ![i] = "join_err"]
    /\ UNCHANGED <<clock, cmd, prefix, today, timestamp, log_dir, dirs, fs, fh,
                   child, exitcode, wopen, pipe, emitted, rpc, line, consumed,
                   console, returncode, ret, raw, ppc, networks, connection, xvars>>

\* line 61: stdout_thread.join() blocks until the thread has ended
JoinStdout(i) ==
    /\ pc[i] = "join_out"
    /\ rpc[i]["out"] \in {"done", "error"}
    /\ pc' = [pc EXCEPT ![i] = "join_err"]
    /\ UNCHANGED <<clock, cmd, prefix, today, timestamp, log_dir, dirs, fs, fh,
                   child, exitcode, wopen, pipe, emitted, rpc, line, consumed,
                   console, returncode, ret, raw, ppc, networks, connection, xvars>>

\* JoinStderr without the join: the main thread does not wait
JoinStderrNoWait(i) ==
    /\ pc[i] = "join_err"
    /\ pc' = [pc EXCEPT ![i] = "close_logs"]
    /\ UNCHANGED <<clock, cmd, prefix, today, timestamp, log_dir, dirs, fs, fh,
                   child, exitcode, wopen, pipe, emitted, rpc, line, consumed,
                   console, returncode, ret, raw, ppc, networks, connection, xvars>>

\* line 62
JoinStderr(i) ==
    /\ pc[i] = "join_err"
    /\ rpc[i]["err"] \in {"done", "error"}
    /\ pc' = [pc EXCEPT ![i] = "close_logs"]
    /\ UNCHANGED <<clock, cmd, prefix, today, timestamp, log_dir, dirs, fs, fh,
                   child, exitcode, wopen, pipe, emitted, rpc, line, consumed,
                   console, returncode, ret, raw, ppc, networks, connection, xvars>>

\* end of the with block of lines 29-30: both files are flushed and closed
CloseLogFiles(i) ==
    /\ pc[i] = "close_logs"
    /\ fs' = Flushed(Flushed(fs, fh[i]["out"]), fh[i]["err"])
    /\ fh' = [fh EXCEPT ![i] = [s \in Streams |-> ClosedHandle]]
    /\ pc' = [pc EXCEPT ![i] = "open_rc"]
    /\ UNCHANGED <<clock, cmd, prefix, today, timestamp, log_dir, dirs,
                   child, exitcode, wopen, pipe, emitted, rpc, line, consumed,
                   console, returncode, ret, raw, ppc, networks, connection, xvars>>

\* line 65: open(log_dir/"returncode.txt", "w")
OpenReturncodeFile(i) ==
    /\ pc[i] = "open_rc"
    /\ fs' = Truncate(fs, Join(log_dir[i], "returncode.txt"))
    /\ pc' = [pc EXCEPT ![i] = "write_rc"]
    /\ UNCHANGED <<clock, cmd, prefix, today, timestamp, log_dir, dirs, fh,
                   child, exitcode, wopen, pipe, emitted, rpc, line, consumed,
                   console, returncode, ret, raw, ppc, networks, connection, xvars>>

\* line 66 and the end of the with block: f.write(str(returncode)), close
WriteReturncode(i) ==
    /\ pc[i] = "write_rc"
    /\ fs' = [fs EXCEPT ![Join(log_dir[i], "returncode.txt")] =
                                       WriteAt(@, 0, <<Str(returncode[i])>>)]
    /\ pc' = [pc EXCEPT ![i] = "return"]
    /\ UNCHANGED <<clock, cmd, prefix, today, timestamp, log_dir, dirs, fh,
                   child, exitcode, wopen, pipe, emitted, rpc, line, consumed,
                   console, returncode, ret, raw, ppc, networks, connection, xvars>>

\* lines 68-69
Return(i) ==
    /\ pc[i] = "return"
    /\ console' = Append(console,
                    [by |-> <<i, "main">>,
                     text |-> "\nCommand logged to: " \o log_dir[i] \o "\n"])
    /\ pc' = [pc EXCEPT ![i] = "returned"]
    /\ ret' = [ret EXCEPT ![i] = returncode[i]]
    /\ UNCHANGED <<clock, cmd, prefix, today, timestamp, log_dir, dirs, fs, fh,
                   child, exitcode, wopen, pipe, emitted, rpc, line, consumed,
                   returncode, raw, ppc, networks, connection, xvars>>

(***************************************************************************)
(* The child process (and any descendant that inherited its pipes).        *)
(***************************************************************************)
\* a holder of the write end of pipe s writes one line
Emit(i, s) ==
    /\ wopen[i][s]
    /\ TotalEmitted(Inv) < MaxLines
    /\ LET l == LineText(NumEmitted(i) + 1)
       IN /\ pipe' = [pipe EXCEPT ![i][s] = Append(@, l)]
          /\ emitted' = [emitted EXCEPT ![i][s] = Append(@, l)]
    /\ UNCHANGED <<clock, pc, cmd, prefix, today, timestamp, log_dir, dirs, fs,
                   fh, child, exitcode, wopen, rpc, line, consumed,
                   console, returncode, ret, raw, ppc, networks, connection, xvars>>

\* the last holder of the write end of pipe s closes it
CloseStream(i, s) ==
    /\ wopen[i][s]
    /\ wopen' = [wopen EXCEPT ![i][s] = FALSE]
    /\ UNCHANGED <<clock, pc, cmd, prefix, today, timestamp, log_dir, dirs, fs,
                   fh, child, exitcode, pipe, emitted, rpc, line, consumed,
                   console, returncode, ret, raw, ppc, networks, connection, xvars>>

\* the child exits with status n; each pipe it still holds is closed, unless
\* a descendant it leaves behind keeps the pipe open (s \in kept)
Exit(i, n, kept) ==
    /\ child[i] = "running"
    /\ child' = [child EXCEPT ![i] = "exited"]
    /\ exitcode' = [exitcode EXCEPT ![i] = n]
    /\ wopen' = [wopen EXCEPT ![i] = [s \in Streams |-> @[s] /\ s \in kept]]
    /\ UNCHANGED <<clock, pc, cmd, prefix, today, timestamp, log_dir, dirs, fs,
                   fh, pipe, emitted, rpc, line, consumed,
                   console, returncode, ret, raw, ppc, networks, connection, xvars>>

(***************************************************************************)
(* stream_output: the reader thread of stream s.                           *)
(***************************************************************************)
\* ReaderFile with stdout_file given to both threads
ReaderFileBothStdout(s) == "out"

\* lines 49-54: the file each thread is given (stdout_file or stderr_file)
ReaderFile(s) == s

\* NextLine yielding the newest line of the pipe instead of the oldest
NextLineNewestFirst(i, s) ==
    /\ rpc[i][s] = "next"
    /\ pipe[i][s] # <<>>
    /\ LET n == Len(pipe[i][s])
       IN /\ line' = [line EXCEPT ![i][s] = pipe[i][s][n]]
          /\ pipe' = [pipe EXCEPT ![i][s] = SubSeq(@, 1, n - 1)]
          /\ consumed' = [consumed EXCEPT ![i][s] = Append(@, pipe[i][s][n])]
    /\ rpc' = [rpc EXCEPT ![i][s] = "print"]
    /\ UNCHANGED <<clock, pc, cmd, prefix, today, timestamp, log_dir, dirs, fs,
                   fh, child, exitcode, wopen, emitted,
                   console, returncode, ret, raw, ppc, networks, connection, xvars>>

\* line 43: the iterator yields the next line of the pipe
NextLine(i, s) ==
    /\ rpc[i][s] = "next"
    /\ pipe[i][s] # <<>>
    /\ line' = [line EXCEPT ![i][s] = Head(pipe[i][s])]
    /\ pipe' = [pipe EXCEPT ![i][s] = Tail(@)]
    /\ consumed' = [consumed EXCEPT ![i][s] = Append(@, Head(pipe[i][s]))]
    /\ rpc' = [rpc EXCEPT ![i][s] = "print"]
    /\ UNCHANGED <<clock, pc, cmd, prefix, today, timestamp, log_dir, dirs, fs,
                   fh, child, exitcode, wopen, emitted,
                   console, returncode, ret, raw, ppc, networks, connection, xvars>>

\* EndOfStream not noticed: the thread goes on waiting for a line
EndOfStreamIgnored(i, s) ==
    /\ rpc[i][s] = "next"
    /\ pipe[i][s] = <<>>
    /\ ~wopen[i][s]
    /\ UNCHANGED vars

\* line 43: the pipe is empty and its write end is closed; the loop ends
EndOfStream(i, s) ==
    /\ rpc[i][s] = "next"
    /\ pipe[i][s] = <<>>
    /\ ~wopen[i][s]
    /\ rpc' = [rpc EXCEPT ![i][s] = "done"]
    /\ UNCHANGED <<clock, pc, cmd, prefix, today, timestamp, log_dir, dirs, fs,
                   fh, child, exitcode, wopen, pipe, emitted, line, consumed,
                   console, returncode, ret, raw, ppc, networks, connection, xvars>>

\* line 44: print(prefix + line, end='')
PrintLine(i, s) ==
    /\ rpc[i][s] = "print"
    /\ console' = Append(console,
                    [by |-> <<i, s>>, text |-> ConsolePrefix(s) \o line[i][s]])
    /\ rpc' = [rpc EXCEPT ![i][s] = "write"]
    /\ UNCHANGED <<clock, pc, cmd, prefix, today, timestamp, log_dir, dirs, fs,
                   fh, child, exitcode, wopen, pipe, emitted, line, consumed,
                   returncode, ret, raw, ppc, networks, connection, xvars>>

\* WriteLine writing what was printed, prefix included
WriteLinePrefixed(i, s) ==
    /\ rpc[i][s] = "write"
    /\ IF fh[i][ReaderFile(s)].st = "open"
       THEN /\ fh' = [fh EXCEPT ![i][ReaderFile(s)].buf =
                                   Append(@, ConsolePrefix(s) \o line[i][s])]
            /\ rpc' = [rpc EXCEPT ![i][s] = "flush"]
       ELSE /\ fh' = fh
            /\ rpc' = [rpc EXCEPT ![i][s] = "error"]
    /\ UNCHANGED <<clock, pc, cmd, prefix, today, timestamp, log_dir, dirs, fs,
                   child, exitcode, wopen, pipe, emitted, line, consumed,
                   console, returncode, ret, raw, ppc, networks, connection, xvars>>

\* line 45: file.write(line); writing to a closed file raises and ends the
\* thread
WriteLine(i, s) ==
    /\ rpc[i][s] = "write"
    /\ IF fh[i][ReaderFile(s)].st = "open"
       THEN /\ fh' = [fh EXCEPT ![i][ReaderFile(s)].buf = Append(@, line[i][s])]
            /\ rpc' = [rpc EXCEPT ![i][s] = "flush"]
       ELSE /\ fh' = fh
            /\ rpc' = [rpc EXCEPT ![i][s] = "error"]
    /\ UNCHANGED <<clock, pc, cmd, prefix, today, timestamp, log_dir, dirs, fs,
                   child, exitcode, wopen, pipe, emitted, line, consumed,
                   console, returncode, ret, raw, ppc, networks, connection, xvars>>

\* FlushLine without the flush: the line stays in the file object's buffer
FlushLineDeferred(i, s) ==
    /\ rpc[i][s] = "flush"
    /\ rpc' = [rpc EXCEPT ![i][s] = "next"]
    /\ UNCHANGED <<clock, pc, cmd, prefix, today, timestamp, log_dir, dirs, fs,
                   fh, child, exitcode, wopen, pipe, emitted, line, consumed,
                   console, returncode, ret, raw, ppc, networks, connection, xvars>>

\* line 46: file.flush()
FlushLine(i, s) ==
    /\ rpc[i][s] = "flush"
    /\ IF fh[i][ReaderFile(s)].st = "open"
       THEN /\ fs' = Flushed(fs, fh[i][ReaderFile(s)])
            /\ fh' = [fh EXCEPT ![i][ReaderFile(s)] = AfterFlush(@)]
            /\ rpc' = [rpc EXCEPT ![i][s] = "next"]
       ELSE /\ UNCHANGED <<fs, fh>>
            /\ rpc' = [rpc EXCEPT ![i][s] = "error"]
    /\ UNCHANGED <<clock, pc, cmd, prefix, today, timestamp, log_dir, dirs,
                   child, exitcode, wopen, pipe, emitted, line, consumed,
                   console, returncode, ret, raw, ppc, networks, connection, xvars>>

(***************************************************************************)
(* Specifications of the command runner.                                   *)
(***************************************************************************)
InitRunner(called) ==
    /\ clock = ClockStart
    /\ pc = [i \in Inv |-> IF i \in called THEN "pending" ELSE "idle"]
    /\ cmd = [i \in Inv |-> None]
    /\ prefix = [i \in Inv |-> None]
    /\ today = [i \in Inv |-> None]
    /\ timestamp = [i \in Inv |-> None]
    /\ log_dir = [i \in Inv |-> None]
    /\ dirs = {}
    /\ fs = <<>>
    /\ fh = [i \in Inv |-> [s \in Streams |-> ClosedHandle]]
    /\ child = [i \in Inv |-> "none"]
    /\ exitcode = [i \in Inv |-> NoStatus]
    /\ wopen = [i \in Inv |-> [s \in Streams |-> FALSE]]
    /\ pipe = [i \in Inv |-> [s \in Streams |-> <<>>]]
    /\ emitted = [i \in Inv |-> [s \in Streams |-> <<>>]]
    /\ rpc = [i \in Inv |-> [s \in Streams |-> "unstarted"]]
    /\ line = [i \in Inv |-> [s \in Streams |-> None]]
    /\ consumed = [i \in Inv |-> [s \in Streams |-> <<>>]]
    /\ console = <<>>
    /\ returncode = [i \in Inv |-> NoStatus]
    /\ ret = [i \in Inv |-> NoStatus]

AdbIdle ==
    /\ check = TRUE
    /\ proc = NotStarted
    /\ apc = "idle"
    /\ aprinted = FALSE
    /\ aret = None

\* `ip_address` when it fails the test `if not ip_address`: None or ""
NoIpAddress == <<>>

\* config.yaml does not exist
NoFile == [file |-> "missing"]

McpIdle ==
    /\ mpc = "idle"
    /\ ip_address = NoIpAddress
    /\ config = NoFile
    /\ mret = None

\* nothing but the runner and the parsers has been called
OthersIdle ==
    /\ AdbIdle
    /\ McpIdle

ParserIdle ==
    /\ raw = <<>>
    /\ ppc = "idle"
    /\ networks = <<>>
    /\ connection = NoConnection
    /\ calls = <<>>

\* one call of log_command
Init == InitRunner({1}) /\ ParserIdle /\ OthersIdle

Main(i) ==
    \/ \E c \in Calls : Call(i, c)
    \/ ReadToday(i)
    \/ ReadTimestamp(i)
    \/ MakeLogDir(i)
    \/ OpenCommandFile(i)
    \/ WriteCommand(i)
    \/ OpenLogFiles(i)
    \/ Popen(i)
    \/ PopenFails(i)
    \/ StartStdoutThread(i)
    \/ StartStderrThread(i)
    \/ Wait(i)
    \/ JoinStdout(i)
    \/ JoinStderr(i)
    \/ CloseLogFiles(i)
    \/ OpenReturncodeFile(i)
    \/ WriteReturncode(i)
    \/ Return(i)

Child(i) ==
    \/ \E s \in Streams : Emit(i, s)
    \/ \E s \in Streams : CloseStream(i, s)
    \/ \E n \in ExitCodes, kept \in SUBSET Streams : Exit(i, n, kept)

Reader(i, s) ==
    \/ NextLine(i, s)
    \/ EndOfStream(i, s)
    \/ PrintLine(i, s)
    \/ WriteLine(i, s)
    \/ FlushLine(i, s)

Next ==
    \/ Tick
    \/ \E i \in Inv : Main(i)
    \/ \E i \in Inv : Child(i)
    \/ \E i \in Inv, s \in Streams : Reader(i, s)

Spec == Init /\ [][Next]_vars

\* one call of log_command under fair scheduling: a thread that can take a
\* step takes one in the end (every step of a thread changes its position);
\* nothing is assumed of the child
SpecFair ==
    /\ Spec
    /\ WF_pc(Main(1))
    /\ \A s \in Streams : WF_rpc(Reader(1, s))

\* two calls of log_command, one after the other, that share the clock, the
\* file system and the console
InitTwice == InitRunner({1, 2}) /\ ParserIdle /\ OthersIdle

SpecTwice == InitTwice /\ [][Next]_vars

(***************************************************************************)
(* Properties of the command runner.                                       *)
(***************************************************************************)
IsPrefix(a, b) == Len(a) <= Len(b) /\ \A k \in 1..Len(a) : a[k] = b[k]

Range(f) == {f[k] : k \in DOMAIN f}

Exists(path) == path \in DOMAIN fs

LogFile(i, s) == Join(log_dir[i], LogFileName(s))

\* the texts thread s of call i has printed, in console order
Printed(i, s) ==
    LET sel == SelectSeq(console, LAMBDA e : e.by = <<i, s>>)
    IN [k \in 1..Len(sel) |-> sel[k].text]

\* C1: once log_command has returned, stdout.txt is exactly the sequence of
\* lines written to the child's standard output and stderr.txt exactly the
\* sequence written to its standard error.
C1_LogsHoldOutput ==
    \A i \in Inv : pc[i] = "returned" =>
        \A s \in Streams :
            /\ Exists(LogFile(i, s))
            /\ fs[LogFile(i, s)] = emitted[i][s]

C1_Witness ==
    /\ pc[1] = "returned"
    /\ emitted[1]["out"] # <<>>
    /\ emitted[1]["err"] # <<>>

\* the decimal text of each exit status the child may end with
DecimalText(n) == CASE n = 0 -> "0" [] n = 7 -> "7" [] n = -9 -> "-9"

\* C2: whatever the exit status n of the child, log_command does not raise,
\* returns n, returncode.txt holds the decimal text of n, and all four files
\* are written.
C2_ExitCodeIsData ==
    \A i \in Inv :
        /\ child[i] # "none" => pc[i] # "raised"
        /\ pc[i] = "returned" =>
              /\ exitcode[i] \in ExitCodes
              /\ ret[i] = exitcode[i]
              /\ \A f \in {"command.txt", "stdout.txt", "stderr.txt",
                           "returncode.txt"} : Exists(Join(log_dir[i], f))
              /\ fs[Join(log_dir[i], "returncode.txt")]
                     = <<DecimalText(exitcode[i])>>

C2_Witness == pc[1] = "returned" /\ ret[1] = 7

\* C3: log_command has returned, or returncode.txt exists, only when the child
\* has exited and both readers have reached end-of-stream with nothing left
\* unread in either pipe.
C3_ReturnsAfterDrain ==
    \A i \in Inv :
        (log_dir[i] # None
           /\ (pc[i] = "returned" \/ Exists(Join(log_dir[i], "returncode.txt"))))
        => /\ child[i] = "exited"
           /\ \A s \in Streams : rpc[i][s] = "done" /\ pipe[i][s] = <<>>

C3_Witness ==
    /\ pc[1] = "returned"
    /\ consumed[1]["out"] # <<>>
    /\ consumed[1]["err"] # <<>>

\* C4: any two calls of log_command have distinct log directories.
C4_DistinctLogDirs ==
    \A i, j \in Inv :
        (i # j /\ log_dir[i] # None /\ log_dir[j] # None)
            => log_dir[i] # log_dir[j]

\* C5: whenever the child has been spawned, the log directory exists and
\* command.txt holds exactly the command text.
C5_CommandSavedBeforeSpawn ==
    \A i \in Inv : child[i] # "none" =>
        /\ log_dir[i] \in dirs
        /\ Exists(Join(log_dir[i], "command.txt"))
        /\ fs[Join(log_dir[i], "command.txt")] = <<cmd[i]>>

C5_Witness == child[1] = "running"

\* C6: the flushed content of each log file is a prefix of the lines written
\* to its stream so far, and lacks at most one of the lines its reader has
\* taken from the pipe.
C6_FlushedEveryLine ==
    \A i \in Inv : \A s \in Streams :
        (log_dir[i] # None /\ Exists(LogFile(i, s))) =>
            /\ IsPrefix(fs[LogFile(i, s)], emitted[i][s])
            /\ IsPrefix(fs[LogFile(i, s)], consumed[i][s])
            /\ Len(consumed[i][s]) - Len(fs[LogFile(i, s)]) <= 1

C6_Witness ==
    /\ child[1] = "running"
    /\ Len(consumed[1]["out"]) = 2
    /\ Len(fs[LogFile(1, "out")]) = 1

\* C7: every line read is printed and logged: a stdout line unmodified on the
\* console and in stdout.txt, a stderr line with "ERR: " before it on the
\* console and without it in stderr.txt; no line reaches the other stream's
\* file.
C7_Teed ==
    \A i \in Inv :
        /\ \A s \in Streams :
              /\ Len(Printed(i, s)) <= Len(consumed[i][s])
              /\ Len(consumed[i][s]) - Len(Printed(i, s)) <= 1
              /\ rpc[i][s] \in {"next", "done"} =>
                    /\ Len(Printed(i, s)) = Len(consumed[i][s])
                    /\ log_dir[i] # None /\ Exists(LogFile(i, s))
                    /\ fs[LogFile(i, s)] = consumed[i][s]
        /\ \A k \in 1..Len(Printed(i, "out")) :
              Printed(i, "out")[k] = consumed[i]["out"][k]
        /\ \A k \in 1..Len(Printed(i, "err")) :
              Printed(i, "err")[k] = "ERR: " \o consumed[i]["err"][k]
        /\ log_dir[i] # None =>
              /\ Exists(LogFile(i, "out")) =>
                    Range(fs[LogFile(i, "out")]) \cap Range(emitted[i]["err"]) = {}
              /\ Exists(LogFile(i, "err")) =>
                    Range(fs[LogFile(i, "err")]) \cap Range(emitted[i]["out"]) = {}

C7_Witness ==
    /\ Len(Printed(1, "out")) = 1
    /\ Len(Printed(1, "err")) = 1
    /\ rpc[1]["out"] = "done"
    /\ rpc[1]["err"] = "done"

\* C8: when the process cannot be created, log_command raises instead of
\* returning; the log directory and command.txt exist, returncode.txt does
\* not, no reader thread was started, and stdout.txt and stderr.txt are
\* absent or empty.
C8_StartFailurePropagates ==
    \A i \in Inv :
        (child[i] = "none"
           /\ pc[i] \notin {"idle", "pending", "today", "timestamp", "mkdir",
                            "open_cmd", "write_cmd", "open_logs", "popen"})
        => /\ pc[i] = "raised"
           /\ ret[i] = NoStatus
           /\ log_dir[i] \in dirs
           /\ Exists(Join(log_dir[i], "command.txt"))
           /\ fs[Join(log_dir[i], "command.txt")] = <<cmd[i]>>
           /\ ~Exists(Join(log_dir[i], "returncode.txt"))
           /\ \A s \in Streams :
                 /\ rpc[i][s] = "unstarted"
                 /\ Exists(LogFile(i, s)) => fs[LogFile(i, s)] = <<>>

C8_Witness == pc[1] = "raised"

(***************************************************************************)
(* The scan parser, list_wifi_networks.  Text is a sequence of characters; *)
(* positions are counted from 1 here and from 0 in the source.             *)
(***************************************************************************)
\* the characters \s and str.strip() take for whitespace
Space == {" ", "\t", "\n", "\r"}

\* \d
Digits == {"0", "1", "2", "3", "4", "5", "6", "7", "8", "9"}

\* [0-9a-f:]
HexColon == Digits \cup {"a", "b", "c", "d", "e", "f", ":"}

IsSpace(c) == c \in Space

IsDigit(c) == c \in Digits

IsHexColon(c) == c \in HexColon

\* the last position of the longest run of characters of S that starts at p
RECURSIVE RunEnd(_, _, _)
RunEnd(t, p, S) ==
    IF p + 1 <= Len(t) /\ t[p + 1] \in S THEN RunEnd(t, p + 1, S) ELSE p

\* the least element of a non-empty set of numbers
Min(S) == CHOOSE k \in S : \A m \in S : k <= m

\* str.strip()
Strip(t) ==
    LET keep == {k \in 1..Len(t) : ~IsSpace(t[k])}
    IN IF keep = {} THEN <<>>
       ELSE SubSeq(t, Min(keep), CHOOSE k \in keep : \A m \in keep : m <= k)

\* str.split('\n')
RECURSIVE Split(_)
Split(t) ==
    LET nl == {k \in 1..Len(t) : t[k] = "\n"}
    IN IF nl = {} THEN <<t>>
       ELSE <<SubSeq(t, 1, Min(nl) - 1)>> \o Split(SubSeq(t, Min(nl) + 1, Len(t)))

\* pat in t
Contains(t, pat) ==
    \E k \in 1..(Len(t) - Len(pat) + 1) : SubSeq(t, k, k + Len(pat) - 1) = pat

\* t.find(pat, from): positions counted from 0, -1 when there is none
Find(t, pat, from) ==
    LET at == {k \in from..(Len(t) - Len(pat)) :
                  SubSeq(t, k + 1, k + Len(pat)) = pat}
    IN IF at = {} THEN -1 ELSE Min(at)

\* t[a:b], positions counted from 0
Slice(t, a, b) == SubSeq(t, a + 1, b)

NoMatch == [found |-> FALSE]

\* re.search(r'^\s*([0-9a-f:]+)', line)
bssid_match(ln) ==
    LET rest == {k \in 1..Len(ln) : ~IsSpace(ln[k])}
    IN IF rest # {} /\ IsHexColon(ln[Min(rest)])
       THEN [found |-> TRUE,
             group1 |-> SubSeq(ln, Min(rest), RunEnd(ln, Min(rest), HexColon))]
       ELSE NoMatch

\* re.search(r'\s+(\d+)\s+', line)
freq_match(ln) ==
    LET ok(i) == /\ IsSpace(ln[i])
                 /\ LET j == RunEnd(ln, i, Space)
                    IN /\ j + 1 <= Len(ln)
                       /\ IsDigit(ln[j + 1])
                       /\ LET k == RunEnd(ln, j + 1, Digits)
                          IN k + 1 <= Len(ln) /\ IsSpace(ln[k + 1])
        at == {i \in 1..Len(ln) : ok(i)}
    IN IF at = {} THEN NoMatch
       ELSE LET j == RunEnd(ln, Min(at), Space)
            IN [found |-> TRUE,
                group1 |-> SubSeq(ln, j + 1, RunEnd(ln, j + 1, Digits))]

\* re.search(r'-\d+\(', line)
rssi_match(ln) ==
    LET ok(i) == /\ ln[i] = "-"
                 /\ i + 1 <= Len(ln)
                 /\ IsDigit(ln[i + 1])
                 /\ LET k == RunEnd(ln, i + 1, Digits)
                    IN k + 1 <= Len(ln) /\ ln[k + 1] = "("
        at == {i \in 1..Len(ln) : ok(i)}
    IN IF at = {} THEN NoMatch
       ELSE [found |-> TRUE,
             group0 |-> SubSeq(ln, Min(at), RunEnd(ln, Min(at) + 1, Digits) + 1)]

\* re.search(r'\s+([^\s].*?)\s+\[', line)
ssid_match(ln) ==
    LET \* \s+\[ matches right after position e
        closes(e) == /\ e + 1 <= Len(ln)
                     /\ IsSpace(ln[e + 1])
                     /\ LET m == RunEnd(ln, e + 1, Space)
                        IN m + 1 <= Len(ln) /\ ln[m + 1] = "["
        ends(g) == {e \in g..Len(ln) : closes(e)}
        ok(i) == /\ IsSpace(ln[i])
                 /\ LET j == RunEnd(ln, i, Space)
                    IN j + 1 <= Len(ln) /\ ends(j + 1) # {}
        at == {i \in 1..Len(ln) : ok(i)}
    IN IF at = {} THEN NoMatch
       ELSE LET g == RunEnd(ln, Min(at), Space) + 1
            IN [found |-> TRUE, group1 |-> SubSeq(ln, g, Min(ends(g)))]

\* flags_match taking the last bracket group only: r'\[([^\[]*)\]$'
flags_match_last_group(ln) ==
    LET at == {i \in 1..Len(ln) : ln[i] = "[" /\ i < Len(ln) /\ ln[Len(ln)] = "]"}
    IN IF at = {} THEN NoMatch
       ELSE [found |-> TRUE,
             group1 |-> SubSeq(ln, (CHOOSE i \in at : \A m \in at : m <= i) + 1,
                               Len(ln) - 1)]

\* re.search(r'\[(.*)\]$', line)
flags_match(ln) ==
    LET at == {i \in 1..Len(ln) : ln[i] = "[" /\ i < Len(ln) /\ ln[Len(ln)] = "]"}
    IN IF at = {} THEN NoMatch
       ELSE [found |-> TRUE, group1 |-> SubSeq(ln, Min(at) + 1, Len(ln) - 1)]

Unknown == <<"U", "n", "k", "n", "o", "w", "n">>

\* Rssi with the slice ending one character early: line[rssi_start:rssi_end]
RssiOffByOne(ln) ==
    IF rssi_match(ln).found
    THEN LET rssi_start == Find(ln, rssi_match(ln).group0, 0)
             rssi_end == Find(ln, <<")">>, rssi_start)
         IN IF rssi_end > rssi_start THEN Slice(ln, rssi_start, rssi_end)
                                     ELSE Unknown
    ELSE Unknown

\* lines 131-137: the rssi field
Rssi(ln) ==
    IF rssi_match(ln).found
    THEN LET rssi_start == Find(ln, rssi_match(ln).group0, 0)
             rssi_end == Find(ln, <<")">>, rssi_start)
         IN IF rssi_end > rssi_start THEN Slice(ln, rssi_start, rssi_end + 1)
                                     ELSE Unknown
    ELSE Unknown

\* Network with the flags falling back to the empty text, as the ssid does
NetworkFlagsEmpty(ln) ==
    [bssid |-> Strip(bssid_match(ln).group1),
     frequency |-> IF freq_match(ln).found THEN Strip(freq_match(ln).group1)
                                           ELSE Unknown,
     rssi |-> Rssi(ln),
     ssid |-> IF ssid_match(ln).found THEN Strip(ssid_match(ln).group1)
                                      ELSE <<>>,
     flags |-> IF flags_match(ln).found THEN Strip(flags_match(ln).group1)
                                        ELSE <<>>]

\* Network with the ssid kept only when the flags matched too
NetworkSsidNeedsFlags(ln) ==
    [bssid |-> Strip(bssid_match(ln).group1),
     frequency |-> IF freq_match(ln).found THEN Strip(freq_match(ln).group1)
                                           ELSE Unknown,
     rssi |-> Rssi(ln),
     ssid |-> IF ssid_match(ln).found /\ flags_match(ln).found
              THEN Strip(ssid_match(ln).group1)
              ELSE <<>>,
     flags |-> IF flags_match(ln).found THEN Strip(flags_match(ln).group1)
                                        ELSE Unknown]

\* lines 139-150: the record of a line whose BSSID matched
Network(ln) ==
    [bssid |-> Strip(bssid_match(ln).group1),
     frequency |-> IF freq_match(ln).found THEN Strip(freq_match(ln).group1)
                                           ELSE Unknown,
     rssi |-> Rssi(ln),
     ssid |-> IF ssid_match(ln).found THEN Strip(ssid_match(ln).group1)
                                      ELSE <<>>,
     flags |-> IF flags_match(ln).found THEN Strip(flags_match(ln).group1)
                                        ELSE Unknown]

\* line 114: "BSSID" in line and "SSID" in line
IsHeader(ln) ==
    /\ Contains(ln, <<"B", "S", "S", "I", "D">>)
    /\ Contains(ln, <<"S", "S", "I", "D">>)

\* StartIdx without the break: the last header line wins
StartIdxNoBreak(lines) ==
    LET hs == {i \in 1..Len(lines) : IsHeader(lines[i])}
    IN IF hs = {} THEN 0 ELSE (CHOOSE i \in hs : \A m \in hs : m <= i)

\* StartIdx never set: every line is a candidate
StartIdxZero(lines) == 0

\* lines 112-116: the position after the first header line, 0 without header
StartIdx(lines) ==
    LET hs == {i \in 1..Len(lines) : IsHeader(lines[i])}
    IN IF hs = {} THEN 0 ELSE (Min(hs) - 1) + 1

\* lines 120-121: a blank line is skipped
SkipLine(ln) == Strip(ln) = <<>>

\* Records with the loop ended by the first line without BSSID
RecordsStopAtMalformed(lines, k) ==
    LET bad == {m \in k..Len(lines) :
                   ~SkipLine(lines[m]) /\ ~bssid_match(lines[m]).found}
        last == IF bad = {} THEN Len(lines) ELSE Min(bad) - 1
        good == SelectSeq(SubSeq(lines, k, last), LAMBDA ln : ~SkipLine(ln))
    IN [m \in 1..Len(good) |-> Network(good[m])]

\* Records with each record put before the earlier ones
RECURSIVE RecordsNewestFirst(_, _)
RecordsNewestFirst(lines, k) ==
    IF k > Len(lines) THEN <<>>
    ELSE IF SkipLine(lines[k]) THEN RecordsNewestFirst(lines, k + 1)
    ELSE IF bssid_match(lines[k]).found
         THEN RecordsNewestFirst(lines, k + 1) \o <<Network(lines[k])>>
         ELSE RecordsNewestFirst(lines, k + 1)

\* lines 119-151: the loop over lines[start_idx:], from position k on
RECURSIVE Records(_, _)
Records(lines, k) ==
    IF k > Len(lines) THEN <<>>
    ELSE IF SkipLine(lines[k]) THEN Records(lines, k + 1)
    ELSE IF bssid_match(lines[k]).found
         THEN <<Network(lines[k])>> \o Records(lines, k + 1)
         ELSE Records(lines, k + 1)

\* lines 108-153: the list built from result.stdout
ParseScan(stdout) ==
    LET lines == Split(Strip(stdout))
    IN Records(lines, StartIdx(lines) + 1)

(***************************************************************************)
(* Calls of the scan parser on scan-result texts.                          *)
(***************************************************************************)
HeaderLine == <<"B", "S", "S", "I", "D", " ", "S", "S", "I", "D">>

ScanLines ==
    { HeaderLine,
      \* a1:f2 24 -5(0) net [W]
      <<"a", "1", ":", "f", "2", " ", "2", "4", " ", "-", "5", "(", "0", ")",
        " ", "n", "e", "t", " ", "[", "W", "]">>,
      \* (space)2b:c4 net [W][E]
      <<" ", "2", "b", ":", "c", "4", " ", "n", "e", "t", " ",
        "[", "W", "]", "[", "E", "]">>,
      \* c3:d4
      <<"c", "3", ":", "d", "4">>,
      \* net 24
      <<"n", "e", "t", " ", "2", "4">>,
      \* bad 24
      <<"b", "a", "d", " ", "2", "4">>,
      \* SSID n
      <<"S", "S", "I", "D", " ", "n">>,
      \* a blank line and a line of whitespace
      <<>>,
      <<" ">> }

\* the text whose lines are ls, each ended by a newline
RECURSIVE TextOf(_)
TextOf(ls) == IF ls = <<>> THEN <<>> ELSE Head(ls) \o <<"\n">> \o TextOf(Tail(ls))

ScanTexts ==
    {TextOf(ls) : ls \in UNION {[1..n -> ScanLines] : n \in 0..MaxScanLines}}

InitScan ==
    /\ InitRunner({})
    /\ raw \in ScanTexts
    /\ ppc = "call"
    /\ networks = <<>>
    /\ connection = NoConnection
    /\ calls = <<>>
    /\ OthersIdle

\* ListWifiNetworks with the list kept from the call before: `networks`
\* as a module-level list that line 108 does not reset
ListWifiNetworksRetaining ==
    /\ ppc = "call"
    /\ networks' = networks \o ParseScan(raw)
    /\ ppc' = "returned"
    /\ calls' = Append(calls, [fn |-> "list_wifi_networks", stdout |-> raw,
                               result |-> networks'])
    /\ UNCHANGED <<raw, connection, lvars, avars, mvars>>

\* lines 98-153: adb exits with 0 and the scan results are parsed
ListWifiNetworks ==
    /\ ppc = "call"
    /\ networks' = ParseScan(raw)
    /\ ppc' = "returned"
    /\ calls' = Append(calls, [fn |-> "list_wifi_networks", stdout |-> raw,
                               result |-> networks'])
    /\ UNCHANGED <<raw, connection, lvars, avars, mvars>>

\* lines 100-105 and 155-159: adb exits with another status; the
\* CalledProcessError is printed and raised again
ListWifiNetworksFails ==
    /\ ppc = "call"
    /\ ppc' = "raised"
    /\ UNCHANGED <<raw, networks, connection, lvars, xvars>>

NextScan == ListWifiNetworks \/ ListWifiNetworksFails

SpecScan == InitScan /\ [][NextScan]_vars

(***************************************************************************)
(* Calls of the scan parser on one line of tokens, between a header line   *)
(* and a closing line that yields no record.                               *)
(***************************************************************************)
Tokens ==
    { <<>>,
      <<"a", "1", ":", "f", "2">>,
      <<"2", "4">>,
      <<"-", "5", "(", "0", ")">>,
      <<"-", "5", "(">>,
      <<"n", "e", "t">>,
      <<"[", "W", "]">>,
      <<"[", "W", "]", "[", "E", "]">> }

\* the tokens ts with one space between them
RECURSIVE JoinTokens(_)
JoinTokens(ts) ==
    IF Len(ts) = 1 THEN ts[1] ELSE ts[1] \o <<" ">> \o JoinTokens(Tail(ts))

TokenLines ==
    {JoinTokens(ts) : ts \in UNION {[1..n -> Tokens] : n \in 1..MaxTokens}}

\* net 24
ClosingLine == <<"n", "e", "t", " ", "2", "4">>

LineTexts == {TextOf(<<HeaderLine, ln, ClosingLine>>) : ln \in TokenLines}

InitLine ==
    /\ InitRunner({})
    /\ raw \in LineTexts
    /\ ppc = "call"
    /\ networks = <<>>
    /\ connection = NoConnection
    /\ calls = <<>>
    /\ OthersIdle

SpecLine == InitLine /\ [][NextScan]_vars

(***************************************************************************)
(* The connection parser, get_current_wifi_connection (wifi.py 210-256),   *)
(* on the text of `cmd wifi status`.                                       *)
(***************************************************************************)
\* lines of a status text
MaxStatusLines == 3

\* Wifi is disabled
WifiDisabled ==
    <<"W", "i", "f", "i", " ", "i", "s", " ", "d", "i", "s", "a",
      "b", "l", "e", "d">>

\* Not connected
NotConnected ==
    <<"N", "o", "t", " ", "c", "o", "n", "n", "e", "c", "t", "e",
      "d">>

\* the literal prefix of r'SSID: (.*?)($|\n)'
SsidKey ==
    <<"S", "S", "I", "D", ":", " ">>

\* the literal prefix of r'BSSID: (.*?)($|\n)'
BssidKey ==
    <<"B", "S", "S", "I", "D", ":", " ">>

\* the literal prefix of r'IP: (.*?)($|\n)'
IpKey ==
    <<"I", "P", ":", " ">>

\* line 234 with only its first test
DisconnectedOnlyDisabled(output) == Contains(output, WifiDisabled)

\* line 234: "Wifi is disabled" in output or "Not connected" in output
Disconnected(output) ==
    Contains(output, WifiDisabled) \/ Contains(output, NotConnected)

\* re.search(key + r'(.*?)($|\n)', output): the leftmost occurrence of the
\* key anywhere in the text; the lazy group ends at the first line break
\* after it, or at the end of the text
field_match(key, output) ==
    LET at == Find(output, key, 0)
    IN IF at = -1 THEN NoMatch
       ELSE LET from == at + Len(key)
                nl == Find(output, <<"\n">>, from)
            IN [found |-> TRUE,
                group1 |-> Slice(output, from,
                                 IF nl = -1 THEN Len(output) ELSE nl)]

\* lines 243-247 with the ip taken only when the BSSID matched too
ConnectionIpNeedsBssid(output) ==
    [ssid |-> Strip(field_match(SsidKey, output).group1),
     bssid |-> IF field_match(BssidKey, output).found
               THEN Strip(field_match(BssidKey, output).group1) ELSE Unknown,
     ip |-> IF field_match(BssidKey, output).found
               /\ field_match(IpKey, output).found
            THEN Strip(field_match(IpKey, output).group1) ELSE Unknown]

\* lines 243-247: the dict built when ssid_match is not None
Connection(output) ==
    [ssid |-> Strip(field_match(SsidKey, output).group1),
     bssid |-> IF field_match(BssidKey, output).found
               THEN Strip(field_match(BssidKey, output).group1) ELSE Unknown,
     ip |-> IF field_match(IpKey, output).found
            THEN Strip(field_match(IpKey, output).group1) ELSE Unknown]

\* lines 231-250: what the function returns for adb's stdout
ParseConnection(stdout) ==
    LET output == Strip(stdout)
    IN IF Disconnected(output) THEN NoConnection
       ELSE IF field_match(SsidKey, output).found THEN Connection(output)
       ELSE NoConnection

StatusLines ==
    { <<>>,
      \* SSID: home
      <<"S", "S", "I", "D", ":", " ", "h", "o", "m", "e">>,
      \* BSSID: a1:f2
      <<"B", "S", "S", "I", "D", ":", " ", "a", "1", ":", "f", "2">>,
      \* IP: 1.2
      <<"I", "P", ":", " ", "1", ".", "2">>,
      \* Wifi is disabled
      <<"W", "i", "f", "i", " ", "i", "s", " ", "d", "i", "s", "a",
        "b", "l", "e", "d">>,
      \* State: Not connected.
      <<"S", "t", "a", "t", "e", ":", " ", "N", "o", "t", " ", "c",
        "o", "n", "n", "e", "c", "t", "e", "d", ".">>,
      \* Link: up
      <<"L", "i", "n", "k", ":", " ", "u", "p">> }

StatusTexts ==
    {TextOf(ls) : ls \in UNION {[1..n -> StatusLines] : n \in 0..MaxStatusLines}}

InitConn ==
    /\ InitRunner({})
    /\ raw \in StatusTexts
    /\ ppc = "call"
    /\ networks = <<>>
    /\ connection = NoConnection
    /\ calls = <<>>
    /\ OthersIdle

\* lines 219-250: adb exits with 0 and the status text is parsed
GetCurrentWifiConnection ==
    /\ ppc = "call"
    /\ connection' = ParseConnection(raw)
    /\ ppc' = "returned"
    /\ calls' = Append(calls, [fn |-> "get_current_wifi_connection",
                               stdout |-> raw, result |-> connection'])
    /\ UNCHANGED <<raw, networks, lvars, avars, mvars>>

\* lines 221-226 and 252-256: adb exits with another status; the
\* CalledProcessError is printed and raised again
GetCurrentWifiConnectionFails ==
    /\ ppc = "call"
    /\ ppc' = "raised"
    /\ UNCHANGED <<raw, networks, connection, lvars, xvars>>

NextConn == GetCurrentWifiConnection \/ GetCurrentWifiConnectionFails

SpecConn == InitConn /\ [][NextConn]_vars

(***************************************************************************)
(* Several calls of the two parsers, one after the other, in one process.  *)
(***************************************************************************)
\* parser calls that return
MaxCalls == 3

CallTexts ==
    { \* a1:f2 24 net [W]\n
      <<"a", "1", ":", "f", "2", " ", "2", "4", " ", "n", "e", "t",
        " ", "[", "W", "]", "\n">>,
      \* c3:d4\n
      <<"c", "3", ":", "d", "4", "\n">>,
      \* SSID: home\nIP: 1.2\n
      <<"S", "S", "I", "D", ":", " ", "h", "o", "m", "e", "\n",
        "I", "P", ":", " ", "1", ".", "2", "\n">> }

InitCalls ==
    /\ InitRunner({})
    /\ raw \in CallTexts
    /\ ppc = "call"
    /\ networks = <<>>
    /\ connection = NoConnection
    /\ calls = <<>>
    /\ OthersIdle

\* the caller goes on to the next call, with the text adb prints then
NextCall(t) ==
    /\ ppc \in {"returned", "raised"}
    /\ Len(calls) < MaxCalls
    /\ raw' = t
    /\ ppc' = "call"
    /\ UNCHANGED <<networks, connection, lvars, xvars>>

NextCalls ==
    \/ NextScan
    \/ NextConn
    \/ \E t \in CallTexts : NextCall(t)

SpecCalls == InitCalls /\ [][NextCalls]_vars

(***************************************************************************)
(* Either parser called on any text: the scan texts, the token lines, the  *)
(* status texts, and lines with unbalanced brackets.                       *)
(***************************************************************************)
MalformedLines ==
    { \* a1:f2 net [W
      <<"a", "1", ":", "f", "2", " ", "n", "e", "t", " ", "[", "W">>,
      \* a1:f2 net W]
      <<"a", "1", ":", "f", "2", " ", "n", "e", "t", " ", "W", "]">>,
      \* a1:f2 ]net[ -5(0
      <<"a", "1", ":", "f", "2", " ", "]", "n", "e", "t", "[", " ", "-", "5", "(", "0">> }

AnyTexts ==
    ScanTexts \cup LineTexts \cup StatusTexts
        \cup {TextOf(<<HeaderLine, ln, ClosingLine>>) : ln \in MalformedLines}

InitAny ==
    /\ InitRunner({})
    /\ raw \in AnyTexts
    /\ ppc = "call"
    /\ networks = <<>>
    /\ connection = NoConnection
    /\ calls = <<>>
    /\ OthersIdle

NextAny == NextScan \/ NextConn

SpecAny == InitAny /\ [][NextAny]_vars

(***************************************************************************)
(* run_adb_command (full_system_dump.py 45-69; the same text is in         *)
(* system_dump.py, dump_raw_partitions.py and partition_info.py).          *)
(***************************************************************************)
AdbExitCodes == {0, 1, 2, 255}

\* what becomes of the command: it cannot be started, or it runs and exits
Procs ==
    {NotStarted} \cup
    [started : {TRUE},
     returncode : AdbExitCodes,
     stdout : {"", "List of devices attached\n", "12345\n", "u0_a1\n"},
     stderr : {"", "error: no devices/emulators found\n"}]

InitAdb ==
    /\ InitRunner({})
    /\ ParserIdle
    /\ check \in BOOLEAN
    /\ proc \in Procs
    /\ apc = "call"
    /\ aprinted = FALSE
    /\ aret = None
    /\ McpIdle

\* lines 60-66: subprocess.run returns a result, which is what it does for
\* every exit status when check is false
RunAdbCommand ==
    /\ apc = "call"
    /\ proc.started
    /\ ~check \/ proc.returncode = 0
    /\ aret' = [kind |-> "return",
                value |-> <<proc.returncode, proc.stdout, proc.stderr>>]
    /\ apc' = "done"
    /\ UNCHANGED <<check, proc, aprinted, calls, pvars, lvars, mvars>>

\* lines 60-65 and 67-69: with check true and another exit status than 0,
\* subprocess.run raises CalledProcessError; the handler prints it and
\* returns the tuple taken from the exception
RunAdbCommandFailed ==
    /\ apc = "call"
    /\ proc.started
    /\ check /\ proc.returncode # 0
    /\ aprinted' = TRUE
    /\ aret' = [kind |-> "return",
                value |-> <<proc.returncode, proc.stdout, proc.stderr>>]
    /\ apc' = "done"
    /\ UNCHANGED <<check, proc, calls, pvars, lvars, mvars>>

\* lines 60-65: the program is not there; the FileNotFoundError of
\* subprocess.run is no CalledProcessError and leaves the function
RunAdbCommandNotStarted ==
    /\ apc = "call"
    /\ ~proc.started
    /\ aret' = [kind |-> "raise", exc |-> "FileNotFoundError"]
    /\ apc' = "done"
    /\ UNCHANGED <<check, proc, aprinted, calls, pvars, lvars, mvars>>

NextAdb == RunAdbCommand \/ RunAdbCommandFailed \/ RunAdbCommandNotStarted

SpecAdb == InitAdb /\ [][NextAdb]_vars

(***************************************************************************)
(* update_mcp_config (wifi.py 259-302).  Of the YAML document only the     *)
(* device entry is modelled; the other entries are written back as read.   *)
(***************************************************************************)
\* config.yaml is empty: yaml.safe_load returns None
EmptyFile == [file |-> "empty"]

\* the document is a mapping without the key "device"
NoDevice == [kind |-> "absent"]

\* the value of "device" is a scalar or null, not a mapping
ScalarDevice == [kind |-> "scalar"]

\* the value of "device" is a mapping with this name
DeviceNamed(n) == [kind |-> "mapping", name |-> n]

\* the document is a mapping
Mapping(dev) == [file |-> "mapping", device |-> dev]

\* 9.9
OldName == <<"9", ".", "9">>

ConfigFiles ==
    {NoFile, EmptyFile, Mapping(NoDevice), Mapping(ScalarDevice),
     Mapping(DeviceNamed(OldName))}

\* the arguments: none, an address, and the 'Unknown' that cli.py passes on
\* from a connection without IP (cli.py 150, 272)
IpArguments == {NoIpAddress, <<"1", ".", "2">>, Unknown}

InitMcp ==
    /\ InitRunner({})
    /\ raw \in StatusTexts
    /\ ppc = "idle"
    /\ networks = <<>>
    /\ connection = NoConnection
    /\ calls = <<>>
    /\ AdbIdle
    /\ mpc = "call"
    /\ ip_address \in IpArguments
    /\ config \in ConfigFiles
    /\ mret = None

\* line 274: not connection or 'ip' not in connection
Undetermined(c) == c = NoConnection \/ "ip" \notin DOMAIN c

\* lines 284-290 run without raising: the document is a mapping and its
\* device entry, when it has one, is a mapping
Updatable(cfg) == cfg.file = "mapping" /\ cfg.device.kind # "scalar"

\* lines 272-276: no address given and none determined; returns False
UpdateMcpConfigNoAddress ==
    /\ mpc = "call"
    /\ ip_address = NoIpAddress
    /\ connection' = ParseConnection(raw)
    /\ Undetermined(connection')
    /\ mret' = FALSE
    /\ mpc' = "returned"
    /\ UNCHANGED <<raw, ppc, networks, calls, ip_address, config, lvars, avars>>

\* lines 273 and 300-302: no address given and adb fails; the
\* CalledProcessError of get_current_wifi_connection is caught, returns False
UpdateMcpConfigAdbFails ==
    /\ mpc = "call"
    /\ ip_address = NoIpAddress
    /\ mret' = FALSE
    /\ mpc' = "returned"
    /\ UNCHANGED <<pvars, calls, ip_address, config, lvars, avars>>

\* lines 272-298 and 300-302: with an address given or determined, the
\* device name is set and the document written back, returns True; when
\* reading or updating the document raises, the file is left alone and the
\* call returns False
UpdateMcpConfig ==
    /\ mpc = "call"
    /\ connection' = IF ip_address = NoIpAddress THEN ParseConnection(raw)
                                                 ELSE connection
    /\ ip_address = NoIpAddress => ~Undetermined(connection')
    /\ ip_address' = IF ip_address = NoIpAddress THEN connection'.ip
                                                 ELSE ip_address
    /\ IF Updatable(config)
       THEN /\ config' = Mapping(DeviceNamed(ip_address'))
            /\ mret' = TRUE
       ELSE /\ config' = config
            /\ mret' = FALSE
    /\ mpc' = "returned"
    /\ UNCHANGED <<raw, ppc, networks, calls, lvars, avars>>

NextMcp ==
    \/ UpdateMcpConfigNoAddress
    \/ UpdateMcpConfigAdbFails
    \/ UpdateMcpConfig

SpecMcp == InitMcp /\ [][NextMcp]_vars

(***************************************************************************)
(* Properties of the scan parser.                                          *)
(***************************************************************************)
\* the lines of the raw text, as the text has them
RawLines == Split(raw)

HasHeader == \E k \in 1..Len(RawLines) : IsHeader(RawLines[k])

\* the lines after the first header line
AfterHeader ==
    LET h == Min({k \in 1..Len(RawLines) : IsHeader(RawLines[k])})
    IN SubSeq(RawLines, h + 1, Len(RawLines))

NonBlank(ln) == \E k \in 1..Len(ln) : ln[k] \notin Space

\* the first character of the line that is not whitespace is one of 0-9a-f:
BeginsHexColon(ln) ==
    \E k \in 1..Len(ln) :
        /\ ln[k] \in HexColon
        /\ \A m \in 1..(k - 1) : ln[m] \in Space

\* C9 (as amended): for a text with a header line, the parser returns one
\* record per non-blank line after the first header line whose first
\* non-whitespace character is a lowercase hexadecimal digit or a colon, in
\* input order.
C9_OneRecordPerMatchingLine ==
    (ppc = "returned" /\ HasHeader) =>
        LET sel == SelectSeq(AfterHeader,
                             LAMBDA ln : NonBlank(ln) /\ BeginsHexColon(ln))
        IN /\ Len(networks) = Len(sel)
           /\ \A k \in 1..Len(sel) :
                 /\ networks[k].bssid # <<>>
                 /\ IsPrefix(networks[k].bssid, Strip(sel[k]))

C9_Witness ==
    /\ ppc = "returned"
    /\ HasHeader
    /\ Len(networks) = 1
    /\ Len(SelectSeq(AfterHeader, NonBlank)) = 2

\* C9 (as stated): for a text with a header line, the parser returns exactly
\* one record per non-blank line after the header.
C9_OneRecordPerNonBlankLine ==
    (ppc = "returned" /\ HasHeader) =>
        Len(networks) = Len(SelectSeq(AfterHeader, NonBlank))

Hex == HexColon \ {":"}

\* tok begins with hexadecimal digits, a colon and a hexadecimal digit
BssidShaped(tok) ==
    \E c \in 2..(Len(tok) - 1) :
        /\ tok[c] = ":"
        /\ tok[c + 1] \in Hex
        /\ \A m \in 1..(c - 1) : tok[m] \in Hex

\* C10: a record is produced only for a line that begins with a BSSID-shaped
\* token, a colon-separated hexadecimal identifier; a line that begins with
\* anything else yields no record.
C10_RecordsOnlyForBssidLines ==
    ppc = "returned" =>
        \A k \in 1..Len(networks) : BssidShaped(networks[k].bssid)

(***************************************************************************)
(* Properties of the fields of one record (SpecLine): the record is        *)
(* networks[1] and its line is the second line of the text.                *)
(***************************************************************************)
TheLine == RawLines[2]

HasRecord == ppc = "returned" /\ Len(networks) = 1

\* the line has a [ with a ] somewhere after it
HasBrackets(ln) ==
    \E a \in 1..Len(ln) : \E b \in (a + 1)..Len(ln) : ln[a] = "[" /\ ln[b] = "]"

\* C11: a line with a BSSID and no bracketed [...] flags yields a record
\* whose flags field is "Unknown".
C11_NoBracketsFlagsUnknown ==
    (HasRecord /\ ~HasBrackets(TheLine)) => networks[1].flags = Unknown

C11_Witness ==
    /\ HasRecord
    /\ ~HasBrackets(TheLine)
    /\ networks[1].frequency = <<"2", "4">>

(***************************************************************************)
(* Header handling (SpecScan).                                             *)
(***************************************************************************)
\* the lines the parser looks at for records: those after the first header
\* line, or all lines of a text without header line
Candidates == IF HasHeader THEN AfterHeader ELSE RawLines

Matching(ln) == NonBlank(ln) /\ BeginsHexColon(ln)

\* position of the first header line
FirstHeader == Min({k \in 1..Len(RawLines) : IsHeader(RawLines[k])})

\* C12: when some line contains both "BSSID" and "SSID", exactly the lines
\* after the first such line are candidate records: the header line and the
\* lines before it yield nothing; without such a line every line of the text
\* is a candidate.
C12_HeaderDelimitsCandidates ==
    ppc = "returned" =>
        LET sel == SelectSeq(Candidates, Matching)
        IN /\ Len(networks) = Len(sel)
           /\ \A k \in 1..Len(sel) : IsPrefix(networks[k].bssid, Strip(sel[k]))

\* a BSSID line before the header line, and one record from after it
C12_Witness ==
    /\ ppc = "returned"
    /\ HasHeader
    /\ \E k \in 1..(FirstHeader - 1) : Matching(RawLines[k])
    /\ Len(networks) = 1

(***************************************************************************)
(* The fields of one record, continued (SpecLine).                         *)
(***************************************************************************)
\* the run of non-space characters that precedes position b of the line,
\* whitespace between the run and b left out
RunBefore(ln, b) ==
    LET ends == {e \in 1..(b - 1) : ln[e] \notin Space}
    IN IF ends = {} THEN <<>>
       ELSE LET e == CHOOSE x \in ends : \A y \in ends : y <= x
                starts == {a \in 1..e : \A m \in a..e : ln[m] \notin Space}
            IN SubSeq(ln, Min(starts), e)

\* C13: the ssid field is the run of non-space characters that precedes a
\* "[", so it contains no whitespace; it is empty when there is no such run.
C13_SsidIsRunBeforeBracket ==
    HasRecord =>
        \/ networks[1].ssid = <<>>
        \/ /\ \A k \in 1..Len(networks[1].ssid) : networks[1].ssid[k] \notin Space
           /\ \E b \in 1..Len(TheLine) :
                 /\ TheLine[b] = "["
                 /\ networks[1].ssid = RunBefore(TheLine, b)

\* the positions of "[" in the line
Opens(ln) == {i \in 1..Len(ln) : ln[i] = "["}

EndsWithBracket(ln) == Len(ln) > 0 /\ ln[Len(ln)] = "]"

\* C14 (as amended): for a line that ends with "]", the flags field is the
\* text between the FIRST "[" of the line and the "]" at the line end,
\* without surrounding whitespace: for "[W][E]" it is "W][E".
C14_FlagsFromFirstBracket ==
    (HasRecord /\ EndsWithBracket(TheLine) /\ Opens(TheLine) # {}) =>
        networks[1].flags =
            Strip(SubSeq(TheLine, Min(Opens(TheLine)) + 1, Len(TheLine) - 1))

\* a line with two bracket groups
C14_Witness ==
    /\ HasRecord
    /\ EndsWithBracket(TheLine)
    /\ Cardinality(Opens(TheLine)) = 2
    /\ networks[1].flags = <<"W", "]", "[", "E">>

\* C14 (as stated): for a line that ends with "]", the flags field is the
\* text between the LAST "[" of the line and the "]" at the line end: for
\* "[W][E]" it is "E".
C14_FlagsFromLastBracket ==
    (HasRecord /\ EndsWithBracket(TheLine) /\ Opens(TheLine) # {}) =>
        networks[1].flags =
            LET last == CHOOSE i \in Opens(TheLine) : \A m \in Opens(TheLine) : m <= i
            IN Strip(SubSeq(TheLine, last + 1, Len(TheLine) - 1))

\* a token -<digits>( begins at position i of the line
RssiTokenAt(ln, i) ==
    /\ ln[i] = "-"
    /\ \E k \in (i + 1)..(Len(ln) - 1) :
          /\ \A m \in (i + 1)..k : ln[m] \in Digits
          /\ ln[k + 1] = "("

\* from the first token -<digits>( through the next ")", or "Unknown"
RssiOf(ln) ==
    LET toks == {i \in 1..Len(ln) : RssiTokenAt(ln, i)}
    IN IF toks = {} THEN Unknown
       ELSE LET closers == {j \in (Min(toks) + 1)..Len(ln) : ln[j] = ")"}
            IN IF closers = {} THEN Unknown
               ELSE SubSeq(ln, Min(toks), Min(closers))

\* C15: the rssi field is the substring of the line from the start of the
\* first token -<digits>( through the next ")" inclusive when there is such a
\* token with a ")" after it, and "Unknown" otherwise.
C15_RssiThroughParenthesis ==
    HasRecord => networks[1].rssi = RssiOf(TheLine)

\* an unclosed token before a closed one: the field runs over both
C15_Witness ==
    /\ HasRecord
    /\ networks[1].rssi = <<"-", "5", "(", " ", "-", "5", "(", "0", ")">>

\* the runs of digits of the line with whitespace on both sides, as pairs
\* of first and last position
StandaloneRuns(ln) ==
    {r \in (2..(Len(ln) - 1)) \X (2..(Len(ln) - 1)) :
        /\ r[1] <= r[2]
        /\ \A m \in r[1]..r[2] : ln[m] \in Digits
        /\ ln[r[1] - 1] \in Space
        /\ ln[r[2] + 1] \in Space}

FirstStandaloneRun(ln) ==
    CHOOSE r \in StandaloneRuns(ln) : \A q \in StandaloneRuns(ln) : r[1] <= q[1]

\* the positions of the first token of the line, which the record reports
\* as its bssid
BssidPositions(ln) ==
    LET first == Min({k \in 1..Len(ln) : ln[k] \notin Space})
    IN {k \in first..Len(ln) : \A m \in first..k : ln[m] \in HexColon}

\* the positions of the tokens -<digits>( of the line
RssiPositions(ln) ==
    {k \in 1..Len(ln) :
        \E i \in 1..k : /\ RssiTokenAt(ln, i)
                        /\ \A m \in (i + 1)..k : ln[m] \in Digits \cup {"("}}

\* the frequency field is the first standalone integer run of the line,
\* "Unknown" when the line has none
FrequencyIsFirstRun ==
    HasRecord =>
        networks[1].frequency =
            IF StandaloneRuns(TheLine) = {} THEN Unknown
            ELSE SubSeq(TheLine, FirstStandaloneRun(TheLine)[1],
                        FirstStandaloneRun(TheLine)[2])

\* C16: the frequency field is the first standalone integer run of the line
\* (digits with whitespace on both sides), "Unknown" when there is none; the
\* digits of the BSSID and of the RSSI token are never reported as frequency.
C16_FrequencyIsStandaloneRun ==
    /\ FrequencyIsFirstRun
    /\ (HasRecord /\ networks[1].frequency # Unknown) =>
          LET r == FirstStandaloneRun(TheLine)
          IN (r[1]..r[2]) \cap (BssidPositions(TheLine) \cup RssiPositions(TheLine)) = {}

(***************************************************************************)
(* Properties of the connection parser (SpecConn).                         *)
(***************************************************************************)
\* some line of the status text begins with the key
HasField(key) == \E k \in 1..Len(RawLines) : IsPrefix(key, RawLines[k])

\* the value on the first line that begins with the key
FieldValue(key) ==
    LET ln == RawLines[Min({k \in 1..Len(RawLines) : IsPrefix(key, RawLines[k])})]
    IN Strip(SubSeq(ln, Len(key) + 1, Len(ln)))

SaysDisconnected ==
    Contains(raw, WifiDisabled) \/ Contains(raw, NotConnected)

\* C17: for a status text that contains "Wifi is disabled" or "Not connected"
\* anywhere, the parser returns None, whatever fields the text also has.
C17_DisconnectedIsNone ==
    (ppc = "returned" /\ SaysDisconnected) => connection = NoConnection

\* "Not connected" inside a line, after an SSID line
C17_Witness ==
    /\ ppc = "returned"
    /\ Contains(raw, NotConnected)
    /\ ~Contains(raw, WifiDisabled)
    /\ HasField(SsidKey)
    /\ connection = NoConnection

\* C18: for a status text with neither phrase and with the lines "SSID: s",
\* "BSSID: b" and "IP: i" in any order, the parser returns the connection
\* with ssid s, bssid b and ip i, each taken from the line that begins with
\* its key.
C18_FieldsFromTheirLines ==
    (/\ ppc = "returned"
     /\ ~SaysDisconnected
     /\ HasField(SsidKey) /\ HasField(BssidKey) /\ HasField(IpKey)) =>
        connection = [ssid |-> FieldValue(SsidKey),
                      bssid |-> FieldValue(BssidKey),
                      ip |-> FieldValue(IpKey)]

\* C19: for a status text in which no line is an SSID field, the parser
\* returns None, also when the text has a BSSID or an IP field.
C19_NoSsidIsNone ==
    (ppc = "returned" /\ ~HasField(SsidKey)) => connection = NoConnection

\* C20: in the connection returned for a text with an SSID field, bssid is
\* "Unknown" exactly when the text has no BSSID field and ip is "Unknown"
\* exactly when the text has no IP field, each independently of the other.
C20_DefaultsPerField ==
    (ppc = "returned" /\ HasField(SsidKey) /\ ~SaysDisconnected) =>
        /\ connection # NoConnection
        /\ connection.bssid = Unknown <=> ~Contains(raw, BssidKey)
        /\ connection.ip = Unknown <=> ~Contains(raw, IpKey)

\* an SSID and an IP field without BSSID field
C20_Witness ==
    /\ ppc = "returned"
    /\ HasField(SsidKey)
    /\ HasField(IpKey)
    /\ ~HasField(BssidKey)
    /\ connection # NoConnection
    /\ connection.bssid = Unknown
    /\ connection.ip = <<"1", ".", "2">>

IsText(x) == x \in Seq(STRING)

IsNetwork(n) ==
    /\ DOMAIN n = {"bssid", "frequency", "rssi", "ssid", "flags"}
    /\ \A f \in DOMAIN n : IsText(n[f])

IsConnection(c) ==
    /\ DOMAIN c = {"ssid", "bssid", "ip"}
    /\ \A f \in DOMAIN c : IsText(c[f])

Returned(fn) == ppc = "returned" /\ calls[1].fn = fn

\* C22: on every text a parser that ran has completed with a result, the
\* scan parser with a list of records of five texts and the connection
\* parser with None or a connection of three texts; a line without BSSID or
\* with fields missing costs no other line its record.
C22_ParsersTotal ==
    /\ Returned("list_wifi_networks") =>
          /\ \A k \in 1..Len(networks) : IsNetwork(networks[k])
          /\ Len(networks) = Len(SelectSeq(Candidates, Matching))
    /\ Returned("get_current_wifi_connection") =>
          (connection = NoConnection \/ IsConnection(connection))

\* a record from the line after a line without BSSID, and a record from a
\* line with unbalanced brackets
C22_Witness ==
    /\ Returned("list_wifi_networks")
    /\ \/ \E k \in 2..Len(Candidates) :
             /\ NonBlank(Candidates[k - 1]) /\ ~Matching(Candidates[k - 1])
             /\ Matching(Candidates[k])
       \/ \E k \in 1..Len(Candidates) :
             /\ Matching(Candidates[k])
             /\ Opens(Candidates[k]) # {}
             /\ ~EndsWithBracket(Candidates[k])
    /\ Len(networks) >= 1

(***************************************************************************)
(* Properties of run_adb_command (SpecAdb).                                *)
(***************************************************************************)
\* C23: a call with check true whose command exits with another status
\* than 0 raises CalledProcessError; a call with check false returns the
\* exit status in its tuple.
C23_CheckedFailureRaises ==
    (apc = "done" /\ proc.started /\ proc.returncode # 0) =>
        IF check
        THEN aret = [kind |-> "raise", exc |-> "CalledProcessError"]
        ELSE aret.kind = "return" /\ aret.value[1] = proc.returncode

(***************************************************************************)
(* Properties of the threads of one log_command call (Spec).               *)
(***************************************************************************)
\* the log file of stream s
FileOf(s) == Join(log_dir[1], LogFileName(s))

\* this step writes into the file object of stream s or changes its file
Touched(s) ==
    \/ fh'[1][s].buf # fh[1][s].buf
    \/ FileOf(s) \in DOMAIN fs /\ fs'[FileOf(s)] # fs[FileOf(s)]

\* this step closes the file object of stream s
Closed(s) == fh[1][s].st = "open" /\ fh'[1][s].st = "closed"

\* C24: a step that writes stdout.txt is a step of the stdout reader thread
\* and a step that writes stderr.txt one of the stderr reader thread; the
\* file objects are closed only when no reader thread is left running, and
\* no thread ever writes to a closed file.
C24_OneWriterPerFile ==
    [][\A s \in Streams :
          /\ Touched(s) => (rpc[1][s] \in {"write", "flush"}
                            /\ rpc'[1][s] # rpc[1][s])
          /\ Closed(s) => \A t \in Streams : rpc[1][t] \in {"unstarted", "done"}
          /\ rpc'[1][s] # "error"]_vars

\* both files written by their threads, then closed
C24_Witness ==
    /\ pc[1] = "open_rc"
    /\ \A s \in Streams :
          /\ rpc[1][s] = "done"
          /\ fh[1][s].st = "closed"
          /\ Len(fs[FileOf(s)]) = 1

\* log_command has returned, with both reader threads terminated and the
\* status in returncode.txt
ReturnedAndLogged ==
    IF pc[1] = "returned"
    THEN /\ \A s \in Streams : rpc[1][s] = "done"
         /\ fs[Join(log_dir[1], "returncode.txt")] = <<Str(returncode[1])>>
    ELSE FALSE

\* C25: under fair scheduling, once the child has exited and both pipes
\* are closed, both reader threads terminate, returncode.txt is written and
\* log_command returns.
C25_ReturnsOnceChildIsGone ==
    (child[1] = "exited" /\ \A s \in Streams : ~wopen[1][s]) ~> ReturnedAndLogged

\* the call has returned after the child wrote to both pipes
C25_Witness ==
    /\ pc[1] = "returned"
    /\ \A s \in Streams : rpc[1][s] = "done" /\ Len(consumed[1][s]) = 1
    /\ Join(log_dir[1], "returncode.txt") \in DOMAIN fs

\* the console lines of stream s are the first lines the child wrote to s, in
\* the order it wrote them
SameStreamOrder(i, s) ==
    /\ Len(Printed(i, s)) <= Len(emitted[i][s])
    /\ \A k \in 1..Len(Printed(i, s)) :
          Printed(i, s)[k] = ConsolePrefix(s) \o emitted[i][s][k]

\* C26: two lines of the same stream appear on the console in the order the
\* child wrote them; between the streams no order is fixed (the witness: a
\* line written to stderr after a stdout line is printed before it).
C26_SameStreamInOrder ==
    \A i \in Inv : \A s \in Streams : SameStreamOrder(i, s)

\* the child wrote line 1 to stdout, then line 2 to stderr; the console shows
\* the stderr line first
C26_Witness ==
    /\ emitted[1]["out"] = <<LineText(1)>>
    /\ emitted[1]["err"] = <<LineText(2)>>
    /\ \E j, k \in 1..Len(console) :
          /\ j < k
          /\ console[j].text = "ERR: " \o LineText(2)
          /\ console[k].text = LineText(1)

(***************************************************************************)
(* Order and provenance of the records (SpecScan).                         *)
(***************************************************************************)
\* the lines of the text as the parser splits them (line 109)
SeenLines == Split(Strip(raw))

\* the lines the loop of line 119 runs over
SeenCandidates ==
    SubSeq(SeenLines, StartIdx(SeenLines) + 1, Len(SeenLines))

\* every field of the record is a sentinel or a piece of the line
FromLine(rec, ln) ==
    \A f \in DOMAIN rec : rec[f] = Unknown \/ Contains(ln, rec[f])

\* C27: the k-th record is built from the k-th candidate line that has a
\* BSSID, and from that line alone; a candidate line yields at most one
\* record, so the list is never longer than the input.
C27_OrderPreserved ==
    ppc = "returned" =>
        LET sel == SelectSeq(SeenCandidates, Matching)
        IN /\ Len(networks) = Len(sel)
           /\ Len(networks) <= Len(SeenCandidates)
           /\ \A k \in 1..Len(sel) :
                 /\ networks[k] = Network(sel[k])
                 /\ FromLine(networks[k], sel[k])

\* two different records, from the first and the third of three candidates
C27_Witness ==
    /\ ppc = "returned"
    /\ Len(SeenCandidates) = 3
    /\ ~Matching(SeenCandidates[2])
    /\ Len(networks) = 2
    /\ networks[1].flags # networks[2].flags
    /\ networks[2].frequency = Unknown

(***************************************************************************)
(* Fallback of the fields of one record (SpecLine).                        *)
(***************************************************************************)
\* \s+(\d+)\s+ matches somewhere in the line
FrequencyPattern(ln) == StandaloneRuns(ln) # {}

\* -\d+\( matches somewhere in the line
RssiPattern(ln) == \E i \in 1..Len(ln) : RssiTokenAt(ln, i)

\* \s+([^\s].*?)\s+\[ matches somewhere in the line
SsidPattern(ln) ==
    \E a, b \in 1..(Len(ln) - 1) :
        /\ a + 1 < b
        /\ ln[a] \in Space
        /\ ln[a + 1] \notin Space
        /\ ln[b] \in Space
        /\ ln[b + 1] = "["

\* \[(.*)\]$ matches
FlagsPattern(ln) == EndsWithBracket(ln) /\ Opens(ln) # {}

\* the line is a BSSID and nothing else
BssidOnly(ln) == ln # <<>> /\ \A k \in 1..Len(ln) : ln[k] \in HexColon

AllSentinels(rec) ==
    /\ rec.frequency = Unknown
    /\ rec.rssi = Unknown
    /\ rec.ssid = <<>>
    /\ rec.flags = Unknown

\* frequency, ssid and flags are sentinels exactly when their patterns fail
OthersFallBackAlone ==
    /\ networks[1].frequency = Unknown <=> ~FrequencyPattern(TheLine)
    /\ networks[1].ssid = <<>> <=> ~SsidPattern(TheLine)
    /\ networks[1].flags = Unknown <=> ~FlagsPattern(TheLine)
    /\ BssidOnly(TheLine) => AllSentinels(networks[1])

\* C28 (as amended): each of frequency, ssid and flags takes its sentinel
\* exactly when its own pattern fails on the line, whatever the other
\* patterns do; rssi takes "Unknown" exactly when the line has no token
\* -<digits>( or no ")" after the first such token; a line that is a BSSID
\* only yields Unknown, Unknown, empty, Unknown.
C28_FallbackPerField ==
    HasRecord =>
        /\ OthersFallBackAlone
        /\ networks[1].rssi = Unknown <=> RssiOf(TheLine) = Unknown

\* the frequency found, the RSSI token found but not closed, no ssid, no
\* flags
C28_Witness ==
    /\ HasRecord
    /\ networks[1].frequency = <<"2", "4">>
    /\ RssiPattern(TheLine)
    /\ networks[1].rssi = Unknown
    /\ networks[1].ssid = <<>>
    /\ networks[1].flags = Unknown

\* C28 (as stated): each of frequency, rssi, ssid and flags takes its
\* sentinel exactly when its own pattern fails on the line.
C28_SentinelIffPatternFails ==
    HasRecord =>
        /\ OthersFallBackAlone
        /\ networks[1].rssi = Unknown <=> ~RssiPattern(TheLine)

(***************************************************************************)
(* The two clock reads of log_command (Spec).                              *)
(***************************************************************************)
\* the digits YYYYMMDD of a date YYYY-MM-DD
DateDigits(d) == SubSeq(d, 1, 4) \o SubSeq(d, 6, 7) \o SubSeq(d, 9, 10)

\* C29: in every log directory path the date component denotes the same
\* calendar day as the YYYYMMDD part of the timestamp component, also when
\* the clock passes midnight between the two reads.
C29_DateMatchesTimestamp ==
    \A i \in Inv :
        log_dir[i] # None =>
            /\ log_dir[i] = LogDirPath(today[i], prefix[i], CmdHash(cmd[i]),
                                       timestamp[i])
            /\ DateDigits(today[i]) = SubSeq(timestamp[i], 1, 8)

(***************************************************************************)
(* update_mcp_config (SpecMcp).                                            *)
(***************************************************************************)
\* digits separated by dots
IsIpAddress(t) ==
    /\ t # <<>>
    /\ \A k \in 1..Len(t) : t[k] \in Digits \cup {"."}
    /\ t[1] \in Digits
    /\ t[Len(t)] \in Digits

\* the status text reports no connection, or a connection without IP
NoIpReported ==
    ParseConnection(raw) = NoConnection \/ ~Contains(raw, IpKey)

\* C30: a call without ip_address, when the status text reports no
\* connection or a connection without IP, returns False and leaves the config
\* file as it was; the device name is only ever set to an IP address; the
\* call never raises.
C30_OnlyAnIpIsWritten ==
    [][(mpc = "call" /\ mpc' # "call") =>
          /\ mpc' = "returned"
          /\ (ip_address = NoIpAddress /\ NoIpReported) =>
                (mret' = FALSE /\ config' = config)
          /\ config' # config => IsIpAddress(config'.device.name)]_vars

====
